---- MODULE Spec2Model ----
(***************************************************************************)
(* Model of the dashboard engine (claude_service.py) and of the HTTP       *)
(* handlers that drive it (main.py).                                       *)
(*                                                                         *)
(* A DataFrame is a sequence of columns; a column is a record              *)
(* [name, dtype, values].  Text (object) cells are NaN, a string that      *)
(* pandas.to_datetime parses, or a string it rejects.                      *)
(***************************************************************************)
EXTENDS Integers, Sequences, FiniteSets, TLC

VARIABLES
    df,             \* engine run: the DataFrame handed to create_full_dashboard
    call,           \* engine run: the faults injected into the last call, its locals
    result,         \* engine run: what create_full_dashboard returned
    csv_files,      \* table csv_files   (models.py CSVFile)
    chat_sessions,  \* table chat_sessions (models.py ChatSession)
    messages,       \* table messages    (models.py Message)
    response,       \* last HTTP exchange of the server
    claude_service  \* the ClaudeService instance shared by all requests (main.py)

vars == <<df, call, result, csv_files, chat_sessions, messages, response,
          claude_service>>

----------------------------------------------------------------------------
(* Bounds of the model *)

MaxCols == 2
MaxRows == 2
MaxFiles == 1
MaxSessions == 1
MaxMessages == 2
MaxWide == 4

(* Program constants *)

HeadSample == 100
MaxOptions == 50

NULL == [none |-> TRUE]
NaN == "NaN"

----------------------------------------------------------------------------
(* DataFrames *)

\* a date string, a string that is no date
DateText == "2024-01-15"
PlainText == "north"

\* one date per month of a year, in calendar order
MonthlyDates ==
    << DateText, "2024-02-15", "2024-03-15", "2024-04-15", "2024-05-15",
       "2024-06-15", "2024-07-15", "2024-08-15", "2024-09-15", "2024-10-15",
       "2024-11-15", "2024-12-15" >>

\* the date strings of the model
DateTexts == { MonthlyDates[i] : i \in 1..Len(MonthlyDates) }

\* texts that are no dates: distinct labels, in sorted() order, and region names
Labels == <<
    "city01", "city02", "city03", "city04", "city05", "city06",
    "city07", "city08", "city09", "city10", "city11", "city12",
    "city13", "city14", "city15", "city16", "city17", "city18",
    "city19", "city20", "city21", "city22", "city23", "city24",
    "city25", "city26", "city27", "city28", "city29", "city30",
    "city31", "city32", "city33", "city34", "city35", "city36",
    "city37", "city38", "city39", "city40", "city41", "city42",
    "city43", "city44", "city45", "city46", "city47", "city48",
    "city49", "city50", "city51" >>
Regions == <<"east", PlainText, "south">>

ObjectCells == {NaN, DateText, PlainText}

\* dtypes pandas gives a column; only object columns hold text
NumericDTypes == {"int64", "float64", "int32"}
DTypes == NumericDTypes \cup {"bool", "object"}

ColumnNames == <<"Sales_USD", "quantity", "order_date", "price", "region">>

CellsOf(dtype) ==
    IF dtype = "object" THEN ObjectCells
    ELSE IF dtype = "bool" THEN {TRUE}
    ELSE {7}

\* the columns pandas can build over n rows, without their names
ColumnKinds(n) ==
    UNION { { [dtype |-> t, values |-> v] : v \in [1..n -> CellsOf(t)] } : t \in DTypes }

\* a DataFrame of k columns with the kinds given, named by position
Frame(kinds) ==
    [i \in 1..Len(kinds) |->
        [name |-> ColumnNames[i], dtype |-> kinds[i].dtype, values |-> kinds[i].values]]

\* len(df)
NRows(d) == IF Len(d) = 0 THEN 0 ELSE Len(d[1].values)

\* df[col]
Col(d, name) == d[CHOOSE i \in 1..Len(d) : d[i].name = name]

\* outcome of a call: a returned value, or an exception leaving the callee
Return(v) == [raised |-> FALSE, value |-> v]
Raise(e) == [raised |-> TRUE, error |-> e]

----------------------------------------------------------------------------
(* pandas helpers *)

\* df.select_dtypes(include=...).columns.tolist()
select_dtypes(d, include) ==
    LET F[i \in 0..Len(d)] ==
            IF i = 0 THEN <<>>
            ELSE IF d[i].dtype \in include THEN Append(F[i - 1], d[i].name)
            ELSE F[i - 1]
    IN F[Len(d)]

IsNull(v) == v = NaN

\* Series.dropna()
dropna(values) == SelectSeq(values, LAMBDA v : ~IsNull(v))

\* Series.head(n)
head(values, n) == SubSeq(values, 1, IF Len(values) < n THEN Len(values) ELSE n)

\* one value is accepted by the strict date/time parser
DateParses(v) == v \in DateTexts

\* pd.to_datetime(values, errors='raise'): raises when a value does not parse;
\* an empty Series converts without an error
to_datetime_raises(values) == \E i \in 1..Len(values) : ~DateParses(values[i])

\* pd.to_datetime(values, errors='coerce') followed by dropna: the surviving rows
coerce_dates(values) == SelectSeq(values, LAMBDA v : ~IsNull(v) /\ DateParses(v))

\* list.remove(x): drops the first occurrence
Remove(s, x) ==
    LET i == CHOOSE j \in 1..Len(s) : s[j] = x /\ \A m \in 1..(j - 1) : s[m] # x
    IN SubSeq(s, 1, i - 1) \o SubSeq(s, i + 1, Len(s))

InSeq(x, s) == \E i \in 1..Len(s) : s[i] = x

SeqSum(s) ==
    LET F[i \in 0..Len(s)] == IF i = 0 THEN 0 ELSE F[i - 1] + s[i]
    IN F[Len(s)]

----------------------------------------------------------------------------
(* create_full_dashboard: column classification *)

\* the probe of one object column: the try body completes
DateProbeAny(c) ==
    \/ Len(dropna(c.values)) = 0
    \/ \E i \in 1..Len(head(dropna(c.values), HeadSample)) :
            DateParses(head(dropna(c.values), HeadSample)[i])

DateProbe(c) == ~to_datetime_raises(head(dropna(c.values), HeadSample))

\* a column probed as a date is not removed from categorical_cols
ClassifyColumnsKeep(d) ==
    LET Loop[i \in 0..Len(d)] ==
            IF i = 0 THEN <<>>
            ELSE IF d[i].dtype = "object" /\ DateProbe(d[i])
                 THEN Append(Loop[i - 1], d[i].name)
                 ELSE Loop[i - 1]
    IN [numeric_cols |-> select_dtypes(d, {"int64", "float64"}),
        categorical_cols |-> select_dtypes(d, {"object", "category"}),
        date_cols |-> Loop[Len(d)]]

ClassifyColumns(d) ==
    LET numeric_cols == select_dtypes(d, {"int64", "float64"})
        categorical0 == select_dtypes(d, {"object", "category"})
        Loop[i \in 0..Len(d)] ==
            IF i = 0 THEN [categorical_cols |-> categorical0, date_cols |-> <<>>]
            ELSE LET p == Loop[i - 1]
                     c == d[i]
                 IN IF c.dtype = "object" /\ DateProbe(c)
                    THEN [date_cols |-> Append(p.date_cols, c.name),
                          categorical_cols |->
                              IF InSeq(c.name, p.categorical_cols)
                              THEN Remove(p.categorical_cols, c.name)
                              ELSE p.categorical_cols]
                    ELSE p
    IN [numeric_cols |-> numeric_cols,
        categorical_cols |-> Loop[Len(d)].categorical_cols,
        date_cols |-> Loop[Len(d)].date_cols]

----------------------------------------------------------------------------
(* strings *)

UpperCase == <<"A", "B", "C", "D", "E", "F", "G", "H", "I", "J", "K", "L", "M",
               "N", "O", "P", "Q", "R", "S", "T", "U", "V", "W", "X", "Y", "Z">>
LowerCase == <<"a", "b", "c", "d", "e", "f", "g", "h", "i", "j", "k", "l", "m",
               "n", "o", "p", "q", "r", "s", "t", "u", "v", "w", "x", "y", "z">>

LowerChar(ch) ==
    IF \E i \in 1..Len(UpperCase) : UpperCase[i] = ch
    THEN LowerCase[CHOOSE i \in 1..Len(UpperCase) : UpperCase[i] = ch]
    ELSE ch

\* str.lower()
RECURSIVE lower(_)
lower(str) ==
    IF Len(str) = 0 THEN ""
    ELSE LowerChar(SubSeq(str, 1, 1)) \o lower(SubSeq(str, 2, Len(str)))

\* word in str
Contains(str, word) ==
    \E i \in 1..(Len(str) - Len(word) + 1) : SubSeq(str, i, i + Len(word) - 1) = word

----------------------------------------------------------------------------
(* _generate_kpis *)

CurrencyWords == {"price", "cost", "revenue", "sales"}

\* the words are looked up in the name as written, not lower-cased
KpiFormatCaseSensitive(name) ==
    IF \E word \in CurrencyWords : Contains(name, word)
    THEN "currency" ELSE "number"

KpiFormat(name) ==
    IF \E word \in CurrencyWords : Contains(lower(name), word)
    THEN "currency" ELSE "number"

\* float(Series.mean()) rounded to 2 decimals, in hundredths; NaN for no row
MeanCents(values) ==
    IF Len(values) = 0 THEN NaN
    ELSE LET n == 100 * SeqSum(values)
             q == n \div Len(values)
             r == 2 * (n % Len(values))
         IN IF r > Len(values) \/ (r = Len(values) /\ q % 2 = 1) THEN q + 1 ELSE q

_generate_kpis_nested(d, numeric_cols, categorical_cols, date_cols) ==
    IF numeric_cols # <<>>
    THEN << [id |-> "main_metric", title |-> "Total " \o numeric_cols[1],
             value |-> SeqSum(Col(d, numeric_cols[1]).values),
             format |-> KpiFormat(numeric_cols[1]),
             icon |-> "trending-up", color |-> "green"],
            [id |-> "total_records", title |-> "Total Records",
             value |-> NRows(d), format |-> "number",
             icon |-> "database", color |-> "blue"] >>
    ELSE <<>>

\* the unique-count KPI outside the `if numeric_cols` block
_generate_kpis_flat(d, numeric_cols, categorical_cols, date_cols) ==
    LET kpi1 == << [id |-> "total_records", title |-> "Total Records",
                    value |-> NRows(d), format |-> "number",
                    icon |-> "database", color |-> "blue"] >>
        kpi23 ==
            << [id |-> "main_metric", title |-> "Total " \o numeric_cols[1],
                value |-> SeqSum(Col(d, numeric_cols[1]).values),
                format |-> KpiFormat(numeric_cols[1]),
                icon |-> "trending-up", color |-> "green"],
               [id |-> "avg_metric", title |-> "Average " \o numeric_cols[1],
                value |-> MeanCents(Col(d, numeric_cols[1]).values),
                format |-> KpiFormat(numeric_cols[1]),
                icon |-> "bar-chart", color |-> "purple"] >>
        kpi4 ==
            << [id |-> "unique_categories", title |-> "Unique " \o categorical_cols[1],
                value |-> Cardinality({ Col(d, categorical_cols[1]).values[i] :
                                          i \in 1..NRows(d) } \ {NaN}),
                format |-> "number", icon |-> "tag", color |-> "orange"] >>
    IN kpi1 \o (IF numeric_cols = <<>> THEN <<>> ELSE kpi23)
            \o (IF categorical_cols = <<>> THEN <<>> ELSE kpi4)

_generate_kpis(d, numeric_cols, categorical_cols, date_cols) ==
    LET kpi1 == << [id |-> "total_records", title |-> "Total Records",
                    value |-> NRows(d), format |-> "number",
                    icon |-> "database", color |-> "blue"] >>
        main_numeric == numeric_cols[1]
        kpi23 ==
            << [id |-> "main_metric", title |-> "Total " \o main_numeric,
                value |-> SeqSum(Col(d, main_numeric).values),
                format |-> KpiFormat(main_numeric),
                icon |-> "trending-up", color |-> "green"],
               [id |-> "avg_metric", title |-> "Average " \o main_numeric,
                value |-> MeanCents(Col(d, main_numeric).values),
                format |-> KpiFormat(main_numeric),
                icon |-> "bar-chart", color |-> "purple"] >>
        main_categorical == categorical_cols[1]
        kpi4 ==
            << [id |-> "unique_categories", title |-> "Unique " \o main_categorical,
                value |-> Cardinality({ Col(d, main_categorical).values[i] :
                                          i \in 1..NRows(d) } \ {NaN}),
                format |-> "number", icon |-> "tag", color |-> "orange"] >>
    IN IF numeric_cols = <<>> THEN kpi1
       ELSE IF categorical_cols = <<>> THEN kpi1 \o kpi23
       ELSE kpi1 \o kpi23 \o kpi4

----------------------------------------------------------------------------
(* _generate_charts *)

NCandidates == 6

\* the if-condition guarding candidate k
Attempted(k, d, numeric_cols, categorical_cols, date_cols) ==
    CASE k = 1 -> numeric_cols # <<>>
      [] k = 2 -> categorical_cols # <<>>
      [] k = 3 -> Len(numeric_cols) >= 2
      [] k = 4 -> Len(numeric_cols) >= 2
      [] k = 5 -> date_cols # <<>> /\ numeric_cols # <<>>
      [] k = 6 -> numeric_cols # <<>>

\* no len(df_temp) > 0 test: the time series is charted even from no row
AppendsAlways(k, d, numeric_cols, categorical_cols, date_cols) == TRUE

\* candidate k, once attempted without an error, appends a chart
Appends(k, d, numeric_cols, categorical_cols, date_cols) ==
    IF k = 5 THEN Len(coerce_dates(Col(d, date_cols[1]).values)) > 0 ELSE TRUE

\* a grid filled without gaps: a chart takes the next free cell, so that a
\* skipped candidate shifts every chart after it
ChartOfPacked(k, d, numeric_cols, categorical_cols, date_cols) ==
    LET n == Cardinality({ j \in 1..k :
                 Attempted(j, d, numeric_cols, categorical_cols, date_cols) })
        cell == [row |-> (n + 1) \div 2, col |-> 2 - (n % 2)]
    IN CASE k = 1 -> [id |-> "distribution_chart",
                      title |-> "Distribution of " \o numeric_cols[1],
                      type |-> "histogram", position |-> cell]
         [] k = 2 -> [id |-> "top_categories",
                      title |-> "Top 10 " \o categorical_cols[1],
                      type |-> "bar", position |-> cell]
         [] k = 3 -> [id |-> "correlation_matrix", title |-> "Correlation Matrix",
                      type |-> "heatmap", position |-> cell]
         [] k = 4 -> [id |-> "scatter_plot",
                      title |-> numeric_cols[1] \o " vs " \o numeric_cols[2],
                      type |-> "scatter", position |-> cell]
         [] k = 5 -> [id |-> "time_series",
                      title |-> numeric_cols[1] \o " Over Time",
                      type |-> "line", position |-> cell]
         [] k = 6 -> [id |-> "box_plot",
                      title |-> "Box Plot - " \o numeric_cols[1],
                      type |-> "box", position |-> cell]

ChartOf(k, d, numeric_cols, categorical_cols, date_cols) ==
    CASE k = 1 -> [id |-> "distribution_chart",
                   title |-> "Distribution of " \o numeric_cols[1],
                   type |-> "histogram", position |-> [row |-> 1, col |-> 1]]
      [] k = 2 -> [id |-> "top_categories",
                   title |-> "Top 10 " \o categorical_cols[1],
                   type |-> "bar", position |-> [row |-> 1, col |-> 2]]
      [] k = 3 -> [id |-> "correlation_matrix", title |-> "Correlation Matrix",
                   type |-> "heatmap", position |-> [row |-> 2, col |-> 1]]
      [] k = 4 -> [id |-> "scatter_plot",
                   title |-> numeric_cols[1] \o " vs " \o numeric_cols[2],
                   type |-> "scatter", position |-> [row |-> 2, col |-> 2]]
      [] k = 5 -> [id |-> "time_series",
                   title |-> numeric_cols[1] \o " Over Time",
                   type |-> "line", position |-> [row |-> 3, col |-> 1]]
      [] k = 6 -> [id |-> "box_plot",
                   title |-> "Box Plot - " \o numeric_cols[1],
                   type |-> "box", position |-> [row |-> 3, col |-> 2]]

\* the body of the try block: candidates in order, up to the first one that
\* raises; throwAt is the candidate whose plotting raises (0: none does)
ChartsBody(d, numeric_cols, categorical_cols, date_cols, throwAt) ==
    LET Gen[k \in 0..NCandidates] ==
            IF k = 0 THEN [charts |-> <<>>, raised |-> FALSE]
            ELSE LET p == Gen[k - 1]
                 IN IF p.raised
                       \/ ~Attempted(k, d, numeric_cols, categorical_cols, date_cols)
                    THEN p
                    ELSE IF throwAt = k THEN [p EXCEPT !.raised = TRUE]
                    ELSE IF Appends(k, d, numeric_cols, categorical_cols, date_cols)
                    THEN [p EXCEPT !.charts =
                            Append(@, ChartOf(k, d, numeric_cols, categorical_cols,
                                              date_cols))]
                    ELSE p
    IN Gen[NCandidates]

\* a try/except around every candidate: a failing candidate is skipped alone
_generate_charts_per_chart(d, numeric_cols, categorical_cols, date_cols, throwAt) ==
    LET Gen[k \in 0..NCandidates] ==
            IF k = 0 THEN <<>>
            ELSE IF Attempted(k, d, numeric_cols, categorical_cols, date_cols)
                    /\ throwAt # k
                    /\ Appends(k, d, numeric_cols, categorical_cols, date_cols)
                 THEN Append(Gen[k - 1],
                             ChartOf(k, d, numeric_cols, categorical_cols, date_cols))
                 ELSE Gen[k - 1]
    IN Return(Gen[NCandidates])

\* no except clause: the error leaves the function
_generate_charts_uncaught(d, numeric_cols, categorical_cols, date_cols, throwAt) ==
    LET body == ChartsBody(d, numeric_cols, categorical_cols, date_cols, throwAt)
    IN IF body.raised THEN Raise("chart") ELSE Return(body.charts)

\* the scatter is guarded by len(numeric_cols) >= 1
_generate_charts_scatter_one(d, numeric_cols, categorical_cols, date_cols, throwAt) ==
    LET body == ChartsBody(d, numeric_cols, categorical_cols, date_cols, throwAt)
        scatter == [id |-> "scatter_plot", title |-> numeric_cols[1] \o " vs ",
                    type |-> "scatter", position |-> [row |-> 2, col |-> 2]]
    IN IF Len(numeric_cols) = 1 /\ ~body.raised
       THEN Return(Append(body.charts, scatter))
       ELSE Return(body.charts)

_generate_charts(d, numeric_cols, categorical_cols, date_cols, throwAt) ==
    Return(ChartsBody(d, numeric_cols, categorical_cols, date_cols, throwAt).charts)

----------------------------------------------------------------------------
(* _generate_filters *)

\* text values in sorted() order
ObjectOrder == MonthlyDates \o Labels \o Regions

SortedValues(S) == SelectSeq(ObjectOrder, LAMBDA v : v \in S)

\* Series.dropna().unique()
UniqueValues(values) == { values[i] : i \in 1..Len(values) } \ {NaN}

SeqMin(s) == IF Len(s) = 0 THEN NaN
             ELSE CHOOSE x \in { s[i] : i \in 1..Len(s) } :
                    \A j \in 1..Len(s) : x <= s[j]
SeqMax(s) == IF Len(s) = 0 THEN NaN
             ELSE CHOOSE x \in { s[i] : i \in 1..Len(s) } :
                    \A j \in 1..Len(s) : x >= s[j]

\* len(unique_values) <= 50, compared strictly
HasFewOptionsStrict(d, col) ==
    Cardinality(UniqueValues(Col(d, col).values)) < MaxOptions

\* len(unique_values) <= 50
HasFewOptions(d, col) ==
    Cardinality(UniqueValues(Col(d, col).values)) <= MaxOptions

\* the loop over the categorical columns given
MultiselectFilters(d, cats) ==
    LET Multi[i \in 0..Len(cats)] ==
            IF i = 0 THEN <<>>
            ELSE IF HasFewOptions(d, cats[i])
                 THEN Append(Multi[i - 1],
                        [id |-> "filter_" \o cats[i], column |-> cats[i],
                         type |-> "multiselect",
                         options |-> SortedValues(UniqueValues(Col(d, cats[i]).values))])
                 ELSE Multi[i - 1]
    IN Multi[Len(cats)]

\* the loop over the numeric columns given
RangeFilters(d, nums) ==
    [i \in 1..Len(nums) |->
        [id |-> "range_" \o nums[i], column |-> nums[i], type |-> "range",
         min |-> SeqMin(Col(d, nums[i]).values),
         max |-> SeqMax(Col(d, nums[i]).values)]]

\* the loop over the date columns given; a column with no parsable date is skipped
DateRangeFilters(d, dates) ==
    LET Date[i \in 0..Len(dates)] ==
            IF i = 0 THEN <<>>
            ELSE IF Len(coerce_dates(Col(d, dates[i]).values)) > 0
                 THEN LET sorted == SortedValues(
                                        UniqueValues(Col(d, dates[i]).values)
                                            \cap DateTexts)
                      IN Append(Date[i - 1],
                            [id |-> "date_" \o dates[i], column |-> dates[i],
                             type |-> "daterange",
                             min |-> sorted[1], max |-> sorted[Len(sorted)]])
                 ELSE Date[i - 1]
    IN Date[Len(dates)]

\* the loops without their [:3], [:2] and [:1] slices
_generate_filters_all(d, numeric_cols, categorical_cols, date_cols) ==
    MultiselectFilters(d, categorical_cols)
        \o RangeFilters(d, numeric_cols)
        \o DateRangeFilters(d, date_cols)

_generate_filters(d, numeric_cols, categorical_cols, date_cols) ==
    MultiselectFilters(d, head(categorical_cols, 3))
        \o RangeFilters(d, head(numeric_cols, 2))
        \o DateRangeFilters(d, head(date_cols, 1))

----------------------------------------------------------------------------
(* _generate_data_summary *)

\* df.isnull().sum().sum(): only object columns hold NaN here
MissingValues(d) ==
    LET F[i \in 0..Len(d)] ==
            IF i = 0 THEN 0
            ELSE F[i - 1] + (IF d[i].dtype = "object"
                             THEN Len(d[i].values) - Len(dropna(d[i].values))
                             ELSE 0)
    IN F[Len(d)]

_generate_data_summary(d, numeric_cols, categorical_cols, date_cols) ==
    [overview |-> [total_rows |-> NRows(d), total_columns |-> Len(d),
                   missing_values |-> MissingValues(d)],
     column_types |-> [numeric |-> Len(numeric_cols),
                       categorical |-> Len(categorical_cols),
                       datetime |-> Len(date_cols)],
     numeric_stats |-> head(numeric_cols, 5),
     categorical_stats |-> head(categorical_cols, 3)]

----------------------------------------------------------------------------
(* create_full_dashboard *)

\* the sub-step whose library call raises ("none": no sub-step fails)
Faults == {"none", "classify", "kpis", "filters", "summary"}

\* an error payload that also carries a metadata key
ErrorPayloadWithMetadata(e) ==
    [kpis |-> <<>>, charts |-> <<>>, filters |-> <<>>, summary |-> <<>>,
     error |-> e, metadata |-> [total_rows |-> 0, total_columns |-> 0]]

ErrorPayload(e) ==
    [kpis |-> <<>>, charts |-> <<>>, filters |-> <<>>, summary |-> <<>>, error |-> e]

\* the body of the try block
DashboardBody(d, throwAt, fault) ==
    LET cls == ClassifyColumns(d)
        n == cls.numeric_cols
        c == cls.categorical_cols
        t == cls.date_cols
        charts == _generate_charts(d, n, c, t, throwAt)
    IN IF fault = "classify" THEN Raise("classify")
       ELSE IF fault = "kpis" THEN Raise("kpis")
       ELSE IF charts.raised THEN Raise(charts.error)
       ELSE IF fault = "filters" THEN Raise("filters")
       ELSE IF fault = "summary" THEN Raise("summary")
       ELSE Return([kpis |-> _generate_kpis(d, n, c, t),
                    charts |-> charts.value,
                    filters |-> _generate_filters(d, n, c, t),
                    summary |-> _generate_data_summary(d, n, c, t),
                    metadata |-> [total_rows |-> NRows(d),
                                  total_columns |-> Len(d),
                                  numeric_columns |-> Len(n),
                                  categorical_columns |-> Len(c),
                                  date_columns |-> Len(t)]])

\* no except clause at the top: the error reaches the caller
create_full_dashboard_uncaught(d, throwAt, fault) == DashboardBody(d, throwAt, fault)

create_full_dashboard(d, throwAt, fault) ==
    LET body == DashboardBody(d, throwAt, fault)
    IN IF body.raised THEN Return(ErrorPayload(body.error)) ELSE body

----------------------------------------------------------------------------
(* analyze_data and the visualizations of the chat *)

\* fig.to_json(): the figure serialized to a JSON string
to_json(fig) == [json |-> fig]

\* the value is a JSON string, not a dict
IsJsonString(v) == DOMAIN v = {"json"}

NoVisualization == [data |-> NULL, config |-> NULL]

_create_dashboard(d) ==
    LET numeric_cols == select_dtypes(d, NumericDTypes)
        categorical_cols == select_dtypes(d, {"object"})
        hist == IF Len(numeric_cols) > 0
                THEN << [type |-> "histogram",
                         title |-> "Distribution de " \o numeric_cols[1]] >>
                ELSE <<>>
        bar == IF Len(categorical_cols) > 0
               THEN << [type |-> "bar", title |-> "Top 10 - " \o categorical_cols[1]] >>
               ELSE <<>>
    IN [data |-> [summary_stats |-> [total_rows |-> NRows(d),
                                     total_columns |-> Len(d),
                                     numeric_columns |-> Len(numeric_cols),
                                     categorical_columns |-> Len(categorical_cols)],
                  charts |-> hist \o bar],
        config |-> [type |-> "dashboard"]]

\* the keyword distribution is tested before the keyword correlation
_create_chart_distribution_first(d, user_query) ==
    LET numeric_cols == select_dtypes(d, NumericDTypes)
        categorical_cols == select_dtypes(d, {"object"})
        Single(fig) == [data |-> to_json(fig), config |-> [type |-> "single_chart"]]
    IN IF Contains(lower(user_query), "distribution") /\ Len(numeric_cols) > 0
       THEN Single([type |-> "histogram",
                    title |-> "Distribution de " \o numeric_cols[1]])
       ELSE IF Contains(lower(user_query), "correlation") /\ Len(numeric_cols) >= 2
       THEN Single([type |-> "heatmap", title |-> "Matrice de correlation"])
       ELSE IF Len(numeric_cols) >= 2
       THEN Single([type |-> "scatter",
                    title |-> numeric_cols[1] \o " vs " \o numeric_cols[2]])
       ELSE IF Len(categorical_cols) > 0
       THEN Single([type |-> "bar", title |-> "Repartition - " \o categorical_cols[1]])
       ELSE NoVisualization

\* the no-chart case returned with the config of a chart
_create_chart_typed_empty(d, user_query) ==
    LET numeric_cols == select_dtypes(d, NumericDTypes)
        categorical_cols == select_dtypes(d, {"object"})
        Single(fig) == [data |-> to_json(fig), config |-> [type |-> "single_chart"]]
    IN IF Contains(lower(user_query), "correlation") /\ Len(numeric_cols) >= 2
       THEN Single([type |-> "heatmap", title |-> "Matrice de correlation"])
       ELSE IF Contains(lower(user_query), "distribution") /\ Len(numeric_cols) > 0
       THEN Single([type |-> "histogram",
                    title |-> "Distribution de " \o numeric_cols[1]])
       ELSE IF Len(numeric_cols) >= 2
       THEN Single([type |-> "scatter",
                    title |-> numeric_cols[1] \o " vs " \o numeric_cols[2]])
       ELSE IF Len(categorical_cols) > 0
       THEN Single([type |-> "bar", title |-> "Repartition - " \o categorical_cols[1]])
       ELSE [data |-> NULL, config |-> [type |-> "single_chart"]]

_create_chart(d, user_query) ==
    LET numeric_cols == select_dtypes(d, NumericDTypes)
        categorical_cols == select_dtypes(d, {"object"})
        Single(fig) == [data |-> to_json(fig), config |-> [type |-> "single_chart"]]
    IN IF Contains(lower(user_query), "correlation") /\ Len(numeric_cols) >= 2
       THEN Single([type |-> "heatmap", title |-> "Matrice de correlation"])
       ELSE IF Contains(lower(user_query), "distribution") /\ Len(numeric_cols) > 0
       THEN Single([type |-> "histogram",
                    title |-> "Distribution de " \o numeric_cols[1]])
       ELSE IF Len(numeric_cols) >= 2
       THEN Single([type |-> "scatter",
                    title |-> numeric_cols[1] \o " vs " \o numeric_cols[2]])
       ELSE IF Len(categorical_cols) > 0
       THEN Single([type |-> "bar", title |-> "Repartition - " \o categorical_cols[1]])
       ELSE NoVisualization

_create_table(d) ==
    [data |-> [data |-> [i \in 1..Len(d) |-> head(d[i].values, HeadSample)],
               columns |-> [i \in 1..Len(d) |-> d[i].name],
               total_rows |-> NRows(d),
               dtypes |-> [i \in 1..Len(d) |-> d[i].dtype]],
     config |-> [type |-> "table"]]

\* plotFails: a plotting or serialization call of the chosen branch raises
_generate_visualization(user_query, d, request_type, plotFails) ==
    IF request_type \in {"dashboard", "chart", "table"} /\ plotFails
    THEN NoVisualization
    ELSE IF request_type = "dashboard" THEN _create_dashboard(d)
    ELSE IF request_type = "chart" THEN _create_chart(d, user_query)
    ELSE IF request_type = "table" THEN _create_table(d)
    ELSE NoVisualization

\* the reply of the narrative-text service
NarrativeText == "Voici mon analyse"
NarrativeError == "overloaded_error"
ErrorText(e) == "Desole, une erreur s'est produite lors de l'analyse : " \o e

\* _generate_visualization without its except clause: a plotting error reaches
\* the except clause of analyze_data
AnalyzeBodyPlotUncaught(user_query, d, request_type, narrative, plotFails) ==
    IF narrative = "fail"
    THEN [raised |-> TRUE, error |-> NarrativeError, narrative_calls |-> 1]
    ELSE IF request_type \in {"dashboard", "chart", "table"} /\ plotFails
    THEN [raised |-> TRUE, error |-> "plot_error", narrative_calls |-> 1]
    ELSE LET visualization_result ==
                 _generate_visualization(user_query, d, request_type, plotFails)
         IN [raised |-> FALSE,
             value |-> [text |-> NarrativeText,
                        visualization |-> visualization_result.data,
                        chart_config |-> visualization_result.config],
             narrative_calls |-> 1]

\* narrative: "ok" when client.messages.create answers, "fail" when it raises;
\* narrative_calls counts the requests sent to the service
AnalyzeBody(user_query, d, request_type, narrative, plotFails) ==
    IF narrative = "fail"
    THEN [raised |-> TRUE, error |-> NarrativeError, narrative_calls |-> 1]
    ELSE LET visualization_result ==
                 _generate_visualization(user_query, d, request_type, plotFails)
         IN [raised |-> FALSE,
             value |-> [text |-> NarrativeText,
                        visualization |-> visualization_result.data,
                        chart_config |-> visualization_result.config],
             narrative_calls |-> 1]

\* no except clause: the error of the narrative call reaches send_message
analyze_data_uncaught(user_query, d, request_type, narrative, plotFails) ==
    AnalyzeBody(user_query, d, request_type, narrative, plotFails)

analyze_data(user_query, d, request_type, narrative, plotFails) ==
    LET body == AnalyzeBody(user_query, d, request_type, narrative, plotFails)
    IN IF body.raised
       THEN [raised |-> FALSE,
             value |-> [text |-> ErrorText(body.error),
                        visualization |-> NULL,
                        chart_config |-> NULL],
             narrative_calls |-> body.narrative_calls]
       ELSE body

----------------------------------------------------------------------------
(* The objects shared with the engine *)

\* ClaudeService(): the fields __init__ sets
ClaudeService == [client |-> [api_key |-> "ANTHROPIC_API_KEY"]]

\* the time series is built by assigning the parsed dates into df itself
create_full_dashboard_in_place(self, d) ==
    LET cls == ClassifyColumns(d)
    IN [self |-> self,
        df |-> IF cls.date_cols # <<>> /\ cls.numeric_cols # <<>>
               THEN [i \in 1..Len(d) |->
                        IF d[i].name = cls.date_cols[1]
                        THEN [d[i] EXCEPT !.dtype = "datetime64[ns]"]
                        ELSE d[i]]
               ELSE d]

\* self and df as create_full_dashboard leaves them: no statement assigns to a
\* field of self, and the dates are parsed in df_temp = df.copy()
create_full_dashboard_leaves(self, d) == [self |-> self, df |-> d]

\* self and df as analyze_data leaves them: self.client is only read, df is
\* only read by the summary, the prompt and the plots
analyze_data_leaves(self, d) == [self |-> self, df |-> d]

----------------------------------------------------------------------------
(* The engine, called on an arbitrary DataFrame *)

\* twelve monthly rows: a date, one of three regions, a revenue
MonthlyFrame ==
    << [name |-> "date", dtype |-> "object", values |-> MonthlyDates],
       [name |-> "region", dtype |-> "object",
        values |-> [i \in 1..Len(MonthlyDates) |-> Regions[(i % 3) + 1]]],
       [name |-> "revenue", dtype |-> "int64",
        values |-> <<100, 110, 90, 120, 95, 105, 130, 85, 115, 99, 101, 84>>] >>

NoCall == [op |-> "none"]

InitEngine ==
    /\ \E n \in 0..MaxRows, k \in 0..MaxCols :
         \E kinds \in [1..k -> ColumnKinds(n)] : df = Frame(kinds)
    /\ call = NoCall
    /\ result = Return(NULL)
    /\ csv_files = <<>>
    /\ chat_sessions = <<>>
    /\ messages = <<>>
    /\ response = [op |-> "none"]
    /\ claude_service = ClaudeService

\* the fault injected into one call: the candidate whose plotting raises, or the
\* sub-step that raises; one fault at most per call
CallFaults ==
    { <<k, f>> \in (0..NCandidates) \X Faults : k = 0 \/ f = "none" }

CallCreateFullDashboard ==
    /\ call = NoCall
    /\ \E kf \in CallFaults :
        /\ call' = [op |-> "create_full_dashboard", throwAt |-> kf[1], fault |-> kf[2],
                    cls |-> IF kf[2] = "classify" THEN NULL ELSE ClassifyColumns(df)]
        /\ result' = create_full_dashboard(df, kf[1], kf[2])
    /\ df' = create_full_dashboard_leaves(claude_service, df).df
    /\ claude_service' = create_full_dashboard_leaves(claude_service, df).self
    /\ UNCHANGED <<csv_files, chat_sessions, messages, response>>

NextEngine == CallCreateFullDashboard

SpecEngine == InitEngine /\ [][NextEngine]_vars

\* the engine on wide frames: enough rows for a text column to hold more
\* distinct values than a filter lists, enough columns to exceed every slice
WideRows == MaxOptions + 1

\* a numeric column, a date column, and text columns of 51, 50 and 1 distinct
\* values (the one of 50 has a null cell)
WideKinds ==
    { [dtype |-> "int64", values |-> [i \in 1..WideRows |-> 7]],
      [dtype |-> "object", values |-> [i \in 1..WideRows |-> DateText]],
      [dtype |-> "object", values |-> Labels],
      [dtype |-> "object", values |-> [Labels EXCEPT ![WideRows] = NaN]],
      [dtype |-> "object", values |-> [i \in 1..WideRows |-> PlainText]] }

InitWide ==
    /\ \/ \E k \in 0..MaxWide : \E kinds \in [1..k -> WideKinds] : df = Frame(kinds)
       \/ df = MonthlyFrame
    /\ call = NoCall
    /\ result = Return(NULL)
    /\ csv_files = <<>>
    /\ chat_sessions = <<>>
    /\ messages = <<>>
    /\ response = [op |-> "none"]
    /\ claude_service = ClaudeService

SpecWide == InitWide /\ [][NextEngine]_vars

----------------------------------------------------------------------------
(* The HTTP handlers of main.py *)

\* authenticated users (get_current_user)
Users == {1, 2}

\* what pd.read_csv makes of the uploaded texts
HeaderOnlyFrame ==
    << [name |-> "region", dtype |-> "object", values |-> <<>>],
       [name |-> "price", dtype |-> "object", values |-> <<>>] >>
SalesFrame ==
    << [name |-> "Sales_USD", dtype |-> "int64", values |-> <<7, 7>>],
       [name |-> "quantity", dtype |-> "float64", values |-> <<7, 7>>],
       [name |-> "region", dtype |-> "object", values |-> <<PlainText, PlainText>>] >>
RegionFrame ==
    << [name |-> "region", dtype |-> "object", values |-> <<PlainText, NaN>>] >>
FlagFrame ==
    << [name |-> "active", dtype |-> "bool", values |-> <<TRUE, TRUE>>] >>
TimeFrame ==
    << [name |-> "order_date", dtype |-> "object", values |-> <<DateText, DateText>>],
       [name |-> "price", dtype |-> "int64", values |-> <<7, 7>>] >>

\* uploaded bytes: no byte, bytes that are no CSV, or a CSV text
FileContents ==
    { [kind |-> "empty"], [kind |-> "garbage"] }
    \cup { [kind |-> "csv", frame |-> f] :
             f \in {HeaderOnlyFrame, SalesFrame, RegionFrame, FlagFrame, TimeFrame} }

FileNames == {"data.csv", "notes.txt"}

\* str.endswith
EndsWith(str, suffix) ==
    /\ Len(str) >= Len(suffix)
    /\ SubSeq(str, Len(str) - Len(suffix) + 1, Len(str)) = suffix

\* pd.read_csv(io.StringIO(contents.decode('utf-8')))
read_csv(contents) ==
    IF contents.kind = "csv" THEN Return(contents.frame) ELSE Raise("ParserError")

HTTPError(op, code, detail) == [op |-> op, status |-> code, detail |-> detail]

\* df.empty tested on the columns only
IsEmptyFrameNoColumns(d) == Len(d) = 0

\* df.empty
IsEmptyFrame(d) == Len(d) = 0 \/ NRows(d) = 0

\* an upload answered with HTTP 400; request is the file that was sent
UploadRejected(detail, filename, contents) ==
    [op |-> "upload_csv", status |-> 400, detail |-> detail,
     request |-> [filename |-> filename, contents |-> contents]]

upload_csv(user, filename, contents) ==
    IF ~EndsWith(filename, ".csv")
    THEN /\ response' = UploadRejected("Only CSV files are allowed", filename, contents)
         /\ UNCHANGED csv_files
    ELSE IF contents.kind = "empty"
    THEN /\ response' = UploadRejected("File is empty", filename, contents)
         /\ UNCHANGED csv_files
    ELSE IF read_csv(contents).raised
    THEN /\ response' = UploadRejected("Invalid CSV format", filename, contents)
         /\ UNCHANGED csv_files
    ELSE IF IsEmptyFrame(read_csv(contents).value)
    THEN /\ response' = UploadRejected("CSV file contains no data", filename, contents)
         /\ UNCHANGED csv_files
    ELSE /\ csv_files' = Append(csv_files,
                [user_id |-> user, filename |-> filename,
                 columns |-> [i \in 1..Len(read_csv(contents).value) |->
                                 read_csv(contents).value[i].name],
                 row_count |-> NRows(read_csv(contents).value),
                 file_data |-> contents])
         /\ response' = [op |-> "upload_csv", status |-> 200,
                         file_id |-> Len(csv_files) + 1, filename |-> filename,
                         request |-> [filename |-> filename, contents |-> contents]]

UploadCsv ==
    /\ Len(csv_files) < MaxFiles
    /\ \E user \in Users, filename \in FileNames, contents \in FileContents :
         upload_csv(user, filename, contents)
    /\ UNCHANGED <<df, call, result, chat_sessions, messages, claude_service>>

create_chat_session(user, csv_file_id) ==
    IF ~(csv_file_id \in 1..Len(csv_files) /\ csv_files[csv_file_id].user_id = user)
    THEN /\ response' = [op |-> "create_chat_session", status |-> 404,
                         detail |-> "CSV file not found",
                         caller |-> [user |-> user, csv_file_id |-> csv_file_id]]
         /\ UNCHANGED chat_sessions
    ELSE /\ chat_sessions' = Append(chat_sessions,
                [user_id |-> user, csv_file_id |-> csv_file_id,
                 title |-> "Analyse de " \o csv_files[csv_file_id].filename])
         /\ response' = [op |-> "create_chat_session", status |-> 200,
                         id |-> Len(chat_sessions) + 1, csv_file_id |-> csv_file_id,
                         caller |-> [user |-> user, csv_file_id |-> csv_file_id]]

CreateChatSession ==
    /\ Len(chat_sessions) < MaxSessions
    /\ \E user \in Users, csv_file_id \in 1..(Len(csv_files) + 1) :
         create_chat_session(user, csv_file_id)
    /\ UNCHANGED <<df, call, result, csv_files, messages, claude_service>>

\* MessageResponse(...): visualization_data must be a dict or None
MessageResponseRejects(message) ==
    message.visualization_data # NULL /\ IsJsonString(message.visualization_data)

RequestTypes == {"explanation", "chart", "table", "dashboard"}

Queries == {"Show the CORRELATION matrix", "distribution of values",
            "Distribution and correlation", "hello"}

\* the session is looked up by its id alone
AnySession(user, session_id) == session_id \in 1..Len(chat_sessions)

\* db.query(ChatSession).filter(id == session_id, user_id == current_user.id)
\* finds a session
OwnSession(user, session_id) ==
    /\ session_id \in 1..Len(chat_sessions)
    /\ chat_sessions[session_id].user_id = user

\* HTTPException(404) of a request on a session; caller records who asked
NotFound(op, detail, user, session_id) ==
    [op |-> op, status |-> 404, detail |-> detail,
     caller |-> [user |-> user, session_id |-> session_id]]

send_message(user, session_id, content, request_type, narrative, plotFails) ==
    IF ~OwnSession(user, session_id)
    THEN /\ response' = NotFound("send_message", "Chat session not found",
                                 user, session_id)
         /\ UNCHANGED <<messages, claude_service>>
    ELSE IF chat_sessions[session_id].csv_file_id \notin 1..Len(csv_files)
    THEN /\ response' = NotFound("send_message", "CSV file not found",
                                 user, session_id)
         /\ UNCHANGED <<messages, claude_service>>
    ELSE LET csv_file == csv_files[chat_sessions[session_id].csv_file_id]
             parsed == read_csv(csv_file.file_data)
             user_message == [chat_session_id |-> session_id, content |-> content,
                              is_user |-> TRUE, visualization_data |-> NULL,
                              chart_config |-> NULL]
             analysis == analyze_data(content, parsed.value, request_type,
                                      narrative, plotFails)
             claude_message == [chat_session_id |-> session_id,
                                content |-> analysis.value.text,
                                is_user |-> FALSE,
                                visualization_data |-> analysis.value.visualization,
                                chart_config |-> analysis.value.chart_config]
             left == analyze_data_leaves(claude_service, parsed.value)
             request == [user |-> user, session_id |-> session_id,
                         content |-> content, request_type |-> request_type,
                         narrative |-> narrative, plotFails |-> plotFails,
                         df |-> left.df]
         IN IF parsed.raised
            THEN /\ response' = HTTPError("send_message", 500, "Error reading CSV")
                 /\ UNCHANGED <<messages, claude_service>>
            ELSE IF analysis.raised
            THEN \* the user message is committed, the rollback finds nothing to undo
                 /\ messages' = Append(messages, user_message)
                 /\ claude_service' = left.self
                 /\ response' = [op |-> "send_message", status |-> 500,
                                 detail |-> "Error processing message",
                                 request |-> request,
                                 narrative_calls |-> analysis.narrative_calls]
            ELSE IF MessageResponseRejects(claude_message)
            THEN \* both messages are committed before the response is built
                 /\ messages' = messages \o <<user_message, claude_message>>
                 /\ claude_service' = left.self
                 /\ response' = [op |-> "send_message", status |-> 500,
                                 detail |-> "Error processing message",
                                 request |-> request,
                                 narrative_calls |-> analysis.narrative_calls]
            ELSE /\ messages' = messages \o <<user_message, claude_message>>
                 /\ claude_service' = left.self
                 /\ response' = [op |-> "send_message", status |-> 200,
                                 body |-> [id |-> Len(messages) + 2,
                                           content |-> claude_message.content,
                                           is_user |-> claude_message.is_user,
                                           visualization_data |->
                                               claude_message.visualization_data,
                                           chart_config |-> claude_message.chart_config],
                                 request |-> request,
                                 analysis |-> analysis.value,
                                 narrative_calls |-> analysis.narrative_calls]

\* a plotting fault needs a narrative reply and a request type that plots
SendMessage ==
    /\ Len(messages) + 2 <= MaxMessages
    /\ \E user \in Users, session_id \in 1..(Len(chat_sessions) + 1),
          content \in Queries, request_type \in RequestTypes,
          narrative \in {"ok", "fail"}, plotFails \in BOOLEAN :
         /\ plotFails => (narrative = "ok" /\ request_type # "explanation")
         /\ send_message(user, session_id, content, request_type, narrative, plotFails)
    /\ UNCHANGED <<df, call, result, csv_files, chat_sessions>>

DashboardResponse(session_id, title, dashboard_data) ==
    [session_id |-> session_id, title |-> title,
     kpis |-> dashboard_data.kpis, charts |-> dashboard_data.charts,
     summary |-> dashboard_data.summary, metadata |-> dashboard_data.metadata]

MessageResponse(id, message) ==
    [id |-> id, content |-> message.content, is_user |-> message.is_user,
     visualization_data |-> message.visualization_data,
     chart_config |-> message.chart_config]

\* the list is built outside any try: a stored message that MessageResponse
\* rejects ends the request in the server's 500
get_messages(user, session_id) ==
    IF ~OwnSession(user, session_id)
    THEN response' = NotFound("get_messages", "Chat session not found",
                              user, session_id)
    ELSE LET ids == { i \in 1..Len(messages) :
                        messages[i].chat_session_id = session_id }
             caller == [user |-> user, session_id |-> session_id]
         IN IF \E i \in ids : MessageResponseRejects(messages[i])
            THEN response' = [op |-> "get_messages", status |-> 500,
                              detail |-> "Internal Server Error", caller |-> caller]
            ELSE response' = [op |-> "get_messages", status |-> 200,
                              body |-> [i \in ids |-> MessageResponse(i, messages[i])],
                              caller |-> caller]

GetMessages ==
    /\ \E user \in Users, session_id \in 1..(Len(chat_sessions) + 1) :
         get_messages(user, session_id)
    /\ UNCHANGED <<df, call, result, csv_files, chat_sessions, messages,
                   claude_service>>

get_dashboard(user, session_id, throwAt, fault) ==
    IF ~OwnSession(user, session_id)
    THEN /\ response' = NotFound("get_dashboard", "Chat session not found",
                                 user, session_id)
         /\ UNCHANGED claude_service
    ELSE IF chat_sessions[session_id].csv_file_id \notin 1..Len(csv_files)
    THEN /\ response' = NotFound("get_dashboard", "CSV file not found",
                                 user, session_id)
         /\ UNCHANGED claude_service
    ELSE LET csv_file == csv_files[chat_sessions[session_id].csv_file_id]
             parsed == read_csv(csv_file.file_data)
             dashboard_data == create_full_dashboard(parsed.value, throwAt, fault)
             left == create_full_dashboard_leaves(claude_service, parsed.value)
             request == [user |-> user, session_id |-> session_id,
                         throwAt |-> throwAt, fault |-> fault, df |-> left.df]
         IN IF parsed.raised
            THEN /\ response' = HTTPError("get_dashboard", 500, "Dashboard error")
                 /\ UNCHANGED claude_service
            ELSE IF "metadata" \notin DOMAIN dashboard_data.value
            THEN \* dashboard_data["metadata"] raises KeyError on the error payload
                 /\ claude_service' = left.self
                 /\ response' = [op |-> "get_dashboard", status |-> 500,
                                 detail |-> "Dashboard error", request |-> request]
            ELSE /\ claude_service' = left.self
                 /\ response' = [op |-> "get_dashboard", status |-> 200,
                                 body |-> DashboardResponse(session_id,
                                            chat_sessions[session_id].title,
                                            dashboard_data.value),
                                 request |-> request]

GetDashboard ==
    /\ \E user \in Users, session_id \in 1..(Len(chat_sessions) + 1),
          kf \in CallFaults :
         get_dashboard(user, session_id, kf[1], kf[2])
    /\ UNCHANGED <<df, call, result, csv_files, chat_sessions, messages>>

Init ==
    /\ df = <<>>
    /\ call = NoCall
    /\ result = Return(NULL)
    /\ csv_files = <<>>
    /\ chat_sessions = <<>>
    /\ messages = <<>>
    /\ response = [op |-> "none"]
    /\ claude_service = ClaudeService

Next == UploadCsv \/ CreateChatSession \/ SendMessage

Spec == Init /\ [][Next]_vars

\* the server answering dashboard requests
NextDashboard == UploadCsv \/ CreateChatSession \/ GetDashboard

SpecDashboard == Init /\ [][NextDashboard]_vars

\* every request on a session, the dashboard without an injected fault
GetDashboardNoFault ==
    /\ \E user \in Users, session_id \in 1..(Len(chat_sessions) + 1) :
         get_dashboard(user, session_id, 0, "none")
    /\ UNCHANGED <<df, call, result, csv_files, chat_sessions, messages>>

\* a message whose narrative and plot succeed
SendMessageNoFault ==
    /\ Len(messages) + 2 <= MaxMessages
    /\ \E user \in Users, session_id \in 1..(Len(chat_sessions) + 1),
          request_type \in {"explanation", "chart"} :
         send_message(user, session_id, "hello", request_type, "ok", FALSE)
    /\ UNCHANGED <<df, call, result, csv_files, chat_sessions>>

NextSessions ==
    \/ UploadCsv
    \/ CreateChatSession
    \/ SendMessageNoFault
    \/ GetMessages
    \/ GetDashboardNoFault

SpecSessions == Init /\ [][NextSessions]_vars

----------------------------------------------------------------------------
(* Properties of the engine *)

Called == call.op = "create_full_dashboard"

\* the call built a complete dashboard (it did not take the failure path)
Built == Called /\ ~result.raised /\ "metadata" \in DOMAIN result.value

\* numeric_cols, categorical_cols and date_cols as the call computed them
Cls == call.cls

ChartTypes == { result.value.charts[i].type : i \in 1..Len(result.value.charts) }

\* candidate k was reached and raised
Threw(k) ==
    /\ call.throwAt = k
    /\ Attempted(k, df, Cls.numeric_cols, Cls.categorical_cols, Cls.date_cols)

\* candidate j has its column-type precondition met and data to plot
Eligible(j) ==
    /\ Attempted(j, df, Cls.numeric_cols, Cls.categorical_cols, Cls.date_cols)
    /\ Appends(j, df, Cls.numeric_cols, Cls.categorical_cols, Cls.date_cols)

CandidateType == <<"histogram", "bar", "heatmap", "scatter", "line", "box">>

\* the first 100 non-null values of a column
SampleOf(c) == head(dropna(c.values), HeadSample)

\* C1: every column of the dataset is in exactly one of the three classified
\* lists (numeric, categorical, datetime), whatever its element type.
C1_EveryColumnInExactlyOneList ==
    Built =>
        /\ \A i \in 1..Len(df) :
            Cardinality({ l \in {"numeric_cols", "categorical_cols", "date_cols"} :
                            InSeq(df[i].name, Cls[l]) }) = 1
        /\ result.value.metadata.numeric_columns
             + result.value.metadata.categorical_columns
             + result.value.metadata.date_columns
           = result.value.metadata.total_columns

\* C2: a text column with an empty sample of non-null values is Categorical
\* and not Datetime; a dataset with zero rows has no Datetime column.
C2_EmptySampleIsCategorical ==
    Built =>
        /\ \A i \in 1..Len(df) :
            (df[i].dtype = "object" /\ Len(SampleOf(df[i])) = 0)
                => /\ InSeq(df[i].name, Cls.categorical_cols)
                   /\ ~InSeq(df[i].name, Cls.date_cols)
        /\ (NRows(df) = 0 => Cls.date_cols = <<>>)

\* C3: a text column with a sampled value that fails the strict parse is not
\* Datetime and stays Categorical; a Datetime column is a text column whose
\* sampled values all parse.
C3_UnparsableSampleStaysCategorical ==
    Built =>
        \A i \in 1..Len(df) :
            LET sample == SampleOf(df[i])
                isDate == InSeq(df[i].name, Cls.date_cols)
            IN /\ (df[i].dtype = "object"
                   /\ \E j \in 1..Len(sample) : ~DateParses(sample[j]))
                    => (~isDate /\ InSeq(df[i].name, Cls.categorical_cols))
               /\ isDate
                    => /\ df[i].dtype = "object"
                       /\ \A j \in 1..Len(sample) : DateParses(sample[j])

C3_Witness ==
    /\ Built
    /\ \E i \in 1..Len(df) :
        /\ df[i].dtype = "object"
        /\ \E j, m \in 1..Len(SampleOf(df[i])) :
             DateParses(SampleOf(df[i])[j]) /\ ~DateParses(SampleOf(df[i])[m])
        /\ InSeq(df[i].name, Cls.categorical_cols)

ChartsBefore(k) ==
    LET F[j \in 0..NCandidates] ==
            IF j = 0 THEN <<>>
            ELSE IF j < k /\ Eligible(j)
                 THEN Append(F[j - 1],
                        ChartOf(j, df, Cls.numeric_cols, Cls.categorical_cols,
                                Cls.date_cols))
                 ELSE F[j - 1]
    IN F[NCandidates]

\* C5: an error raised by a chart candidate does not leave _generate_charts:
\* the dashboard is built, its chart list is exactly the charts appended before
\* the failing candidate, in generation order, and its KPIs, filters and summary
\* are those of a run without the failure.
C5_ChartFailureKeepsChartsSoFar ==
    (Called /\ call.fault = "none") =>
        /\ Built
        /\ \A k \in 1..NCandidates :
            Threw(k) =>
                LET clean == create_full_dashboard(df, 0, "none").value
                IN /\ result.value.charts = ChartsBefore(k)
                   /\ result.value.kpis = clean.kpis
                   /\ result.value.filters = clean.filters
                   /\ result.value.summary = clean.summary

C5_Witness ==
    /\ Built
    /\ \E k \in 2..NCandidates : Threw(k) /\ Len(result.value.charts) >= 1
    /\ Len(result.value.kpis) > 1
    /\ Len(result.value.filters) >= 1

\* C6: create_full_dashboard never raises; when a sub-step raises it returns
\* empty kpis, charts and filters, an empty summary and an error field with the
\* failure description.
C6_FailureGivesEmptyDashboard ==
    Called =>
        /\ ~result.raised
        /\ call.fault # "none" =>
            /\ DOMAIN result.value = {"kpis", "charts", "filters", "summary", "error"}
            /\ result.value.kpis = <<>>
            /\ result.value.charts = <<>>
            /\ result.value.filters = <<>>
            /\ result.value.summary = <<>>
            /\ result.value.error = call.fault

C6_Witness ==
    /\ Called
    /\ call.fault = "summary"
    /\ ~result.raised
    /\ "error" \in DOMAIN result.value
    /\ Len(Cls.numeric_cols) >= 2

\* C9: with no candidate raising, the chart list holds the correlation heatmap
\* exactly when there are at least 2 numeric columns, and the scatter chart under
\* the same condition; with fewer than 2 numeric columns neither is ever there.
C9_HeatmapAndScatterNeedTwoNumeric ==
    Built =>
        /\ call.throwAt = 0 =>
            /\ ("heatmap" \in ChartTypes) <=> (Len(Cls.numeric_cols) >= 2)
            /\ ("scatter" \in ChartTypes) <=> (Len(Cls.numeric_cols) >= 2)
        /\ Len(Cls.numeric_cols) < 2 =>
            ("heatmap" \notin ChartTypes /\ "scatter" \notin ChartTypes)

C9_Witness ==
    /\ Built
    /\ call.throwAt = 0
    /\ Len(Cls.numeric_cols) >= 2
    /\ "heatmap" \in ChartTypes
    /\ "scatter" \in ChartTypes

\* C10: the KPI list is never empty; its first element is Total Records, with
\* the row count as value and format number; without a numeric column it is the
\* only KPI, even when categorical columns exist.
C10_TotalRecordsAlwaysFirst ==
    Built =>
        /\ Len(result.value.kpis) >= 1
        /\ result.value.kpis[1].id = "total_records"
        /\ result.value.kpis[1].title = "Total Records"
        /\ result.value.kpis[1].value = NRows(df)
        /\ result.value.kpis[1].format = "number"
        /\ (Cls.numeric_cols = <<>> => Len(result.value.kpis) = 1)

C10_Witness ==
    /\ Built
    /\ Cls.numeric_cols = <<>>
    /\ Cls.categorical_cols # <<>>
    /\ NRows(df) > 0
    /\ Len(result.value.kpis) = 1

\* the ids and the titles of the KPIs returned, in order
KpiIds == [i \in 1..Len(result.value.kpis) |-> result.value.kpis[i].id]
KpiTitles == [i \in 1..Len(result.value.kpis) |-> result.value.kpis[i].title]

\* C11: the KPI list has one of three shapes, in this order: [Total Records];
\* [Total Records, Total n, Average n]; [Total Records, Total n, Average n,
\* Unique c], n the first numeric and c the first categorical column.  Total and
\* Average are there together exactly when a numeric column exists, Unique c
\* exactly when a numeric and a categorical column both exist.
C11_KpiListHasOneOfThreeShapes ==
    Built =>
        IF Cls.numeric_cols = <<>>
        THEN /\ KpiIds = <<"total_records">>
             /\ KpiTitles = <<"Total Records">>
        ELSE IF Cls.categorical_cols = <<>>
        THEN /\ KpiIds = <<"total_records", "main_metric", "avg_metric">>
             /\ KpiTitles = <<"Total Records", "Total " \o Cls.numeric_cols[1],
                              "Average " \o Cls.numeric_cols[1]>>
        ELSE /\ KpiIds = <<"total_records", "main_metric", "avg_metric",
                           "unique_categories">>
             /\ KpiTitles = <<"Total Records", "Total " \o Cls.numeric_cols[1],
                              "Average " \o Cls.numeric_cols[1],
                              "Unique " \o Cls.categorical_cols[1]>>

C11_Witness ==
    /\ Built
    /\ Len(df) = 2
    /\ df[1].dtype = "object"
    /\ NRows(df) = 2
    /\ KpiTitles = <<"Total Records", "Total quantity", "Average quantity",
                     "Unique Sales_USD">>

\* C12: the Total and the Average KPI of the first numeric column carry the
\* same format; it is currency exactly when the column name, lower-cased,
\* contains price, cost, revenue or sales, and number otherwise: Sales_USD,
\* price and revenue give currency, quantity gives number.
C12_CurrencyFormatFollowsColumnName ==
    (Built /\ Cls.numeric_cols # <<>>) =>
        LET name == Cls.numeric_cols[1]
            total == result.value.kpis[2]
            average == result.value.kpis[3]
            named == \E word \in {"price", "cost", "revenue", "sales"} :
                        Contains(lower(name), word)
        IN /\ total.title = "Total " \o name
           /\ average.title = "Average " \o name
           /\ total.format = average.format
           /\ total.format = IF named THEN "currency" ELSE "number"
           /\ name \in {"Sales_USD", "price", "revenue"} => total.format = "currency"
           /\ name = "quantity" => total.format = "number"

C12_Witness ==
    /\ Built
    /\ Cls.numeric_cols # <<>>
    /\ Cls.numeric_cols[1] = "Sales_USD"
    /\ result.value.kpis[2].format = "currency"
    /\ result.value.kpis[3].format = "currency"

\* the wide runs also reach price and quantity as the first numeric column
C12_WitnessPrice ==
    /\ Built
    /\ Cls.numeric_cols # <<>>
    /\ Cls.numeric_cols[1] = "price"
    /\ result.value.kpis[2].format = "currency"

C12_WitnessQuantity ==
    /\ Built
    /\ Cls.numeric_cols # <<>>
    /\ Cls.numeric_cols[1] = "quantity"
    /\ result.value.kpis[3].format = "number"

\* the filters returned, and those of one type, in order
Filters == result.value.filters
FiltersOf(type) == SelectSeq(Filters, LAMBDA f : f.type = type)
ColumnsOf(fs) == [i \in 1..Len(fs) |-> fs[i].column]

IndexIn(x, s) == CHOOSE i \in 1..Len(s) : s[i] = x

\* s holds only columns among the first n of list, in the order of list
InOrderWithin(s, list, n) ==
    /\ \A i \in 1..Len(s) : InSeq(s[i], head(list, n))
    /\ \A i, j \in 1..Len(s) : i < j => IndexIn(s[i], list) < IndexIn(s[j], list)

\* the number of distinct non-null values of a column of the dataset
Distinct(col) ==
    Cardinality({ Col(df, col).values[i] : i \in 1..NRows(df) } \ {NaN})

\* C15: the filters are at most 3 multiselect, then at most 2 range, then at
\* most 1 daterange filter, bound to columns among the first 3 categorical, the
\* first 2 numeric and the first datetime column, in column order in each kind.
C15_FilterCountsAreCapped ==
    Built =>
        /\ Filters = FiltersOf("multiselect") \o FiltersOf("range")
                        \o FiltersOf("daterange")
        /\ Len(FiltersOf("multiselect")) <= 3
        /\ Len(FiltersOf("range")) <= 2
        /\ Len(FiltersOf("daterange")) <= 1
        /\ InOrderWithin(ColumnsOf(FiltersOf("multiselect")), Cls.categorical_cols, 3)
        /\ InOrderWithin(ColumnsOf(FiltersOf("range")), Cls.numeric_cols, 2)
        /\ InOrderWithin(ColumnsOf(FiltersOf("daterange")), Cls.date_cols, 1)

C15_Witness ==
    /\ Built
    /\ Len(Cls.categorical_cols) >= 4
    /\ \A i \in 1..4 : Distinct(Cls.categorical_cols[i]) <= MaxOptions
    /\ ColumnsOf(Filters) = head(Cls.categorical_cols, 3)

\* three numeric columns give two range filters, two date columns one daterange
C15_WitnessRange ==
    /\ Built
    /\ Len(Cls.numeric_cols) >= 3
    /\ Len(Cls.date_cols) >= 1
    /\ ColumnsOf(Filters) = head(Cls.numeric_cols, 2) \o head(Cls.date_cols, 1)

\* C16: a column among the first three categorical columns has a multiselect
\* filter exactly when it holds at most 50 distinct non-null values; a column
\* of 51 has none, a sibling of 50 or fewer has one, and the filters of the
\* others keep their places.
C16_FilterOnlyUpToFiftyOptions ==
    Built =>
        /\ ColumnsOf(FiltersOf("multiselect"))
             = SelectSeq(head(Cls.categorical_cols, 3),
                         LAMBDA col : Distinct(col) <= 50)
        /\ \A i \in 1..Len(FiltersOf("multiselect")) :
             LET f == FiltersOf("multiselect")[i]
             IN /\ Len(f.options) = Distinct(f.column)
                /\ Len(f.options) <= 50
                /\ \A j \in 1..Len(f.options) : ~IsNull(f.options[j])

C16_Witness ==
    /\ Built
    /\ Len(Cls.categorical_cols) >= 3
    /\ Distinct(Cls.categorical_cols[1]) = 1
    /\ Distinct(Cls.categorical_cols[2]) = 51
    /\ Distinct(Cls.categorical_cols[3]) = 50
    /\ ColumnsOf(FiltersOf("multiselect"))
         = <<Cls.categorical_cols[1], Cls.categorical_cols[3]>>

\* the create_full_dashboard call on the twelve monthly rows, no chart raising
MonthlyRun == Built /\ df = MonthlyFrame /\ call.throwAt = 0

\* C20: for the dataset of one datetime column (date), one categorical column
\* (region, 3 distinct values) and one numeric column (revenue) over 12 rows,
\* the charts are histogram, bar, line and box, with no heatmap and no scatter,
\* and the KPIs are Total Records = 12, Total revenue and Average revenue in
\* currency format, Unique region = 3: the date column is not the first
\* categorical column.
C20_MonthlyRevenueDashboard ==
    MonthlyRun =>
        /\ Cls.date_cols = <<"date">>
        /\ Cls.categorical_cols = <<"region">>
        /\ Cls.numeric_cols = <<"revenue">>
        /\ [i \in 1..Len(result.value.charts) |-> result.value.charts[i].type]
             = <<"histogram", "bar", "line", "box">>
        /\ "heatmap" \notin ChartTypes
        /\ "scatter" \notin ChartTypes
        /\ KpiTitles = <<"Total Records", "Total revenue", "Average revenue",
                         "Unique region">>
        /\ result.value.kpis[1].value = 12
        /\ result.value.kpis[2].value = 1234
        /\ result.value.kpis[2].format = "currency"
        /\ result.value.kpis[3].value = 10283
        /\ result.value.kpis[3].format = "currency"
        /\ result.value.kpis[4].value = 3
        /\ result.value.kpis[4].format = "number"

C20_Witness ==
    /\ MonthlyRun
    /\ NRows(df) = 12
    /\ Len(result.value.charts) = 4
    /\ KpiTitles[4] = "Unique region"
    /\ result.value.kpis[4].value = 3

----------------------------------------------------------------------------
(* The chart grid *)

\* the grid cell of each chart kind, in the order of CandidateType
GridCell ==
    << [row |-> 1, col |-> 1], [row |-> 1, col |-> 2], [row |-> 2, col |-> 1],
       [row |-> 2, col |-> 2], [row |-> 3, col |-> 1], [row |-> 3, col |-> 2] >>

Charts == result.value.charts

\* C21: the charts of a dashboard are a subsequence of histogram, bar, heatmap,
\* scatter, line, box (so each kind appears at most once); each chart sits at
\* the grid cell fixed for its kind, whichever other charts were skipped; no
\* two charts share a cell or an id.
C21_ChartsKeepOrderAndCells ==
    Built =>
        /\ \A i \in 1..Len(Charts) :
               /\ InSeq(Charts[i].type, CandidateType)
               /\ Charts[i].position = GridCell[IndexIn(Charts[i].type, CandidateType)]
        /\ \A i, j \in 1..Len(Charts) :
               i < j =>
                   /\ IndexIn(Charts[i].type, CandidateType)
                          < IndexIn(Charts[j].type, CandidateType)
                   /\ Charts[i].position # Charts[j].position
                   /\ Charts[i].id # Charts[j].id

\* a dashboard whose bar chart, heatmap, scatter and line chart were skipped:
\* the box plot is second in the list and still at (3,2)
C21_Witness ==
    /\ Built
    /\ Len(Charts) = 2
    /\ Charts[1].type = "histogram"
    /\ Charts[2].type = "box"
    /\ Charts[2].position = [row |-> 3, col |-> 2]

\* at least one row of the first datetime column holds a date
SomeRowSurvives ==
    LET c == Col(df, Cls.date_cols[1])
    IN \E i \in 1..Len(c.values) : DateParses(c.values[i])

\* C22: with no candidate raising, the dashboard holds the line chart exactly
\* when there is a datetime column, a numeric column, and a row of the first
\* datetime column that survives date parsing; when there are both columns but
\* no row survives, the dashboard is still built (no error), without the line
\* chart and with the box plot that follows it.
C22_LineChartNeedsSurvivingRow ==
    (Built /\ call.throwAt = 0) =>
        /\ ("line" \in ChartTypes) <=>
               /\ Cls.date_cols # <<>>
               /\ Cls.numeric_cols # <<>>
               /\ SomeRowSurvives
        /\ (Cls.date_cols # <<>> /\ Cls.numeric_cols # <<>> /\ ~SomeRowSurvives) =>
               /\ "line" \notin ChartTypes
               /\ "box" \in ChartTypes
               /\ "error" \notin DOMAIN result.value

\* a datetime column without one parsable row, next to a numeric column
C22_Witness ==
    /\ Built
    /\ call.throwAt = 0
    /\ Cls.date_cols # <<>>
    /\ Cls.numeric_cols # <<>>
    /\ ~SomeRowSurvives
    /\ "line" \notin ChartTypes
    /\ Charts[Len(Charts)].type = "box"

\* the line chart of a datetime column with a parsable row
C22_WitnessLine ==
    /\ Built
    /\ call.throwAt = 0
    /\ Cls.date_cols # <<>>
    /\ SomeRowSurvives
    /\ "line" \in ChartTypes

----------------------------------------------------------------------------
(* Properties of the chat *)

\* send_message reached analyze_data
Analyzed == response.op = "send_message" /\ "request" \in DOMAIN response

\* the DataFrame analyze_data was given
RequestFrame ==
    read_csv(csv_files[chat_sessions[response.request.session_id].csv_file_id]
                .file_data).value

\* C7: when the narrative call fails, the result of analyze_data for request
\* types chart, table and dashboard still carries the visualization and the
\* chart_config that _generate_visualization gives for the dataset and query.
C7_VisualizationSurvivesNarrativeFailure ==
    (/\ Analyzed
     /\ response.status = 200
     /\ response.request.narrative = "fail"
     /\ response.request.request_type \in {"chart", "table", "dashboard"})
        => LET expected == _generate_visualization(response.request.content,
                               RequestFrame, response.request.request_type, FALSE)
           IN /\ response.analysis.visualization = expected.data
              /\ response.analysis.chart_config = expected.config

\* C8: when the narrative call fails, send_message answers 200; the text of
\* analyze_data is the substitute error string, which is stored as the last
\* message of the session and returned; the service was called once.
C8_NarrativeFailureIsAnswered ==
    (Analyzed /\ response.request.narrative = "fail") =>
        /\ response.status = 200
        /\ response.analysis.text = ErrorText(NarrativeError)
        /\ response.body.content = ErrorText(NarrativeError)
        /\ response.body.is_user = FALSE
        /\ Len(messages) >= 2
        /\ messages[Len(messages)].is_user = FALSE
        /\ messages[Len(messages)].content = ErrorText(NarrativeError)
        /\ messages[Len(messages)].chat_session_id = response.request.session_id
        /\ messages[Len(messages) - 1].is_user = TRUE
        /\ messages[Len(messages) - 1].content = response.request.content
        /\ response.narrative_calls = 1

C8_Witness ==
    /\ Analyzed
    /\ response.request.narrative = "fail"
    /\ response.request.request_type = "chart"
    /\ response.status = 200
    /\ messages[Len(messages)].content = ErrorText(NarrativeError)

\* a chart request whose narrative call answered: _generate_visualization ran
ChartRequest ==
    /\ Analyzed
    /\ response.request.request_type = "chart"
    /\ response.request.narrative = "ok"

\* the assistant message the request stored
LastMessage == messages[Len(messages)]

\* the kind of the figure stored with the assistant message
ChartKind ==
    IF LastMessage.visualization_data = NULL THEN "none"
    ELSE LastMessage.visualization_data.json.type

ChartTitle == LastMessage.visualization_data.json.title

\* the numeric and the text columns of the frame of the request, in order
NumericNames == select_dtypes(RequestFrame, NumericDTypes)
TextNames == select_dtypes(RequestFrame, {"object"})

QueryHas(word) == Contains(lower(response.request.content), word)

\* some selection rule of the single-chart mode matches
RuleMatches == Len(NumericNames) >= 1 \/ Len(TextNames) >= 1

\* C13: in single-chart mode the chart is picked by the first rule that matches:
\* correlation in the query and 2 numeric columns give the heatmap; else
\* distribution and 1 numeric column the histogram of the first numeric column;
\* else 2 numeric columns the scatter of the first two; else 1 categorical
\* column the bar of the first one; else no chart.  Both keywords with 2
\* numeric columns give the heatmap; correlation with exactly 1 numeric column
\* falls through to the later rules.
C13_FirstMatchingRulePicksChart ==
    (ChartRequest /\ ~response.request.plotFails) =>
        /\ IF QueryHas("correlation") /\ Len(NumericNames) >= 2
           THEN ChartKind = "heatmap"
           ELSE IF QueryHas("distribution") /\ Len(NumericNames) >= 1
           THEN /\ ChartKind = "histogram"
                /\ ChartTitle = "Distribution de " \o NumericNames[1]
           ELSE IF Len(NumericNames) >= 2
           THEN /\ ChartKind = "scatter"
                /\ ChartTitle = NumericNames[1] \o " vs " \o NumericNames[2]
           ELSE IF Len(TextNames) >= 1
           THEN /\ ChartKind = "bar"
                /\ ChartTitle = "Repartition - " \o TextNames[1]
           ELSE ChartKind = "none"
        /\ (response.request.content = "Distribution and correlation"
            /\ Len(NumericNames) >= 2) => ChartKind = "heatmap"
        /\ (response.request.content = "Show the CORRELATION matrix"
            /\ Len(NumericNames) = 1) => ChartKind = "bar"

C13_Witness ==
    /\ ChartRequest
    /\ ~response.request.plotFails
    /\ QueryHas("correlation")
    /\ QueryHas("distribution")
    /\ Len(NumericNames) >= 2
    /\ ChartKind = "heatmap"

\* a correlation query over one numeric column reaches the bar rule
C13_WitnessFallThrough ==
    /\ ChartRequest
    /\ ~response.request.plotFails
    /\ QueryHas("correlation")
    /\ Len(NumericNames) = 1
    /\ ChartKind = "bar"

----------------------------------------------------------------------------
(* Properties of the uploads and the dashboards of the server *)

Uploaded == response.op = "upload_csv"

\* the upload sent no byte, bytes that do not parse, or a header without rows
UploadHasNoData ==
    \/ response.request.contents.kind \in {"empty", "garbage"}
    \/ /\ response.request.contents.kind = "csv"
       /\ NRows(response.request.contents.frame) = 0

\* get_dashboard reached create_full_dashboard
Dashboarded == response.op = "get_dashboard" /\ "request" \in DOMAIN response

\* every stored file parses to a frame with a row; a rejected upload is answered
\* 400; a dashboard answered 200 counts at least one row
C17_StoredFilesHaveRows ==
    /\ \A i \in 1..Len(csv_files) :
        /\ ~read_csv(csv_files[i].file_data).raised
        /\ NRows(read_csv(csv_files[i].file_data).value) >= 1
        /\ csv_files[i].row_count >= 1
    /\ (Uploaded /\ UploadHasNoData) => response.status = 400
    /\ (Dashboarded /\ response.status = 200) =>
        /\ response.body.metadata.total_rows >= 1
        /\ response.body.kpis[1].value >= 1

\* an upload without data leaves the table csv_files as it was
C17_RejectedUploadStoresNothing ==
    (response'.op = "upload_csv" /\ response' # response
        /\ (response'.status # 200
             \/ response'.request.contents.kind \in {"empty", "garbage"}
             \/ NRows(response'.request.contents.frame) = 0))
        => csv_files' = csv_files

\* C17: upload_csv rejects a zero-byte file, content that does not parse and a
\* header-only CSV with an input error and stores no CSVFile for it; so every
\* stored CSV parses to a dataset with at least one row, and get_dashboard
\* never builds a Dashboard for an empty dataset.
C17_EmptyUploadsAreRejected ==
    []C17_StoredFilesHaveRows /\ [][C17_RejectedUploadStoresNothing]_vars

C17_Witness ==
    /\ Uploaded
    /\ response.request.filename = "data.csv"
    /\ response.request.contents = [kind |-> "csv", frame |-> HeaderOnlyFrame]
    /\ response.status = 400
    /\ response.detail = "CSV file contains no data"
    /\ csv_files = <<>>

\* a dashboard is built for a stored file
C17_WitnessDashboard ==
    /\ Dashboarded
    /\ response.status = 200
    /\ response.body.metadata.total_rows = 2

\* the frame parsed from the stored file of the session of the dashboard request
StoredFrame ==
    read_csv(csv_files[chat_sessions[response.request.session_id].csv_file_id]
                .file_data).value

DashboardData ==
    create_full_dashboard(response.request.df, response.request.throwAt,
                          response.request.fault).value

\* create_full_dashboard took its failure path
FailurePath == "error" \in DOMAIN DashboardData

\* C23: when create_full_dashboard takes its failure path, get_dashboard
\* answers 500 and delivers no body; an answer of 200 carries a complete
\* dashboard (kpis, charts, summary, metadata; a non-empty KPI list) and no
\* error field.
C23_FailedDashboardIsAnswered500 ==
    /\ (Dashboarded /\ FailurePath) =>
           /\ response.status = 500
           /\ "body" \notin DOMAIN response
    /\ (response.op = "get_dashboard" /\ response.status = 200) =>
           /\ ~FailurePath
           /\ {"kpis", "charts", "summary", "metadata"} \subseteq DOMAIN response.body
           /\ "error" \notin DOMAIN response.body
           /\ response.body.kpis # <<>>
           /\ response.body.metadata = DashboardData.metadata
    /\ response.op = "get_dashboard" => response.status \in {200, 404, 500}

\* a dashboard request of the session's owner during which a step of
\* create_full_dashboard raised
C23_Witness ==
    /\ Dashboarded
    /\ response.request.fault # "none"
    /\ FailurePath
    /\ "metadata" \notin DOMAIN DashboardData
    /\ response.status = 500

\* a raising chart candidate is not the failure path: the dashboard is delivered
C23_WitnessChartFault ==
    /\ Dashboarded
    /\ response.request.throwAt # 0
    /\ response.status = 200

----------------------------------------------------------------------------
(* Properties of the message log *)

\* the number of messages of a session written by the user (or by the assistant)
CountOf(session_id, is_user) ==
    Cardinality({ i \in 1..Len(messages) :
                    /\ messages[i].chat_session_id = session_id
                    /\ messages[i].is_user = is_user })

\* every assistant message directly follows a user message of its session, and
\* no session holds more assistant messages than user messages
C24_AssistantFollowsUser ==
    /\ \A i \in 1..Len(messages) :
           ~messages[i].is_user =>
               /\ i > 1
               /\ messages[i - 1].is_user
               /\ messages[i - 1].chat_session_id = messages[i].chat_session_id
    /\ \A sid \in 1..Len(chat_sessions) : CountOf(sid, FALSE) <= CountOf(sid, TRUE)

\* a send_message call that ends in HTTP 500
SendEnds500 ==
    /\ response'.op = "send_message"
    /\ response'.status = 500
    /\ <<messages, response>>' # <<messages, response>>

\* C24: every assistant message is preceded by its user message and assistant
\* messages never outnumber user messages; a send_message call that ends in
\* HTTP 500 leaves exactly one new message, the user's, and no new assistant
\* message.
C24_FailedCallLeavesOnlyUserMessage ==
    /\ []C24_AssistantFollowsUser
    /\ [][SendEnds500 =>
             /\ Len(messages') = Len(messages) + 1
             /\ SubSeq(messages', 1, Len(messages)) = messages
             /\ messages'[Len(messages')].is_user]_vars

\* a chart request answered 500 after both messages were committed
C24_BothCommittedThen500 ==
    /\ Analyzed
    /\ response.status = 500
    /\ response.request.narrative = "ok"
    /\ Len(messages) = 2
    /\ ~messages[2].is_user
    /\ IsJsonString(messages[2].visualization_data)

----------------------------------------------------------------------------
(* Properties of the visualization of a chat reply *)

PlottingTypes == {"dashboard", "chart", "table"}

\* C26: when the narrative call succeeds and building the visualization
\* raises, the request is answered with the narrative text unchanged and with
\* visualization and chart_config both null; for a request type other than
\* dashboard, chart and table, visualization and chart_config are both null,
\* and the text is the narrative when the narrative call succeeded.
C26_PlotFailureKeepsNarrative ==
    /\ (Analyzed /\ response.request.narrative = "ok" /\ response.request.plotFails) =>
           /\ response.status = 200
           /\ response.analysis.text = NarrativeText
           /\ response.analysis.visualization = NULL
           /\ response.analysis.chart_config = NULL
           /\ response.body.content = NarrativeText
    /\ (Analyzed /\ response.request.request_type \notin PlottingTypes) =>
           /\ response.status = 200
           /\ response.analysis.visualization = NULL
           /\ response.analysis.chart_config = NULL
           /\ response.request.narrative = "ok" =>
                  response.analysis.text = NarrativeText

\* a chart request whose plot raises, on a dataset a chart would be drawn from
C26_Witness ==
    /\ Analyzed
    /\ response.request.narrative = "ok"
    /\ response.request.plotFails
    /\ response.request.request_type = "chart"
    /\ _create_chart(RequestFrame, response.request.content) # NoVisualization
    /\ response.status = 200
    /\ response.analysis.text = NarrativeText
    /\ response.analysis.visualization = NULL

\* an explanation request, the one type outside PlottingTypes that
\* MessageCreate lets through
C26_WitnessExplanation ==
    /\ Analyzed
    /\ response.request.request_type = "explanation"
    /\ response.request.narrative = "ok"
    /\ response.analysis.text = NarrativeText
    /\ response.analysis.chart_config = NULL

----------------------------------------------------------------------------
(* Properties of session ownership *)

SessionOps == {"send_message", "get_messages", "get_dashboard"}

\* who sent the last request on a session, and for which session
Caller ==
    IF "caller" \in DOMAIN response
    THEN response.caller
    ELSE [user |-> response.request.user,
          session_id |-> response.request.session_id]

\* the last request on a session came from the session's owner
CallerOwnsSession ==
    /\ Caller.session_id \in 1..Len(chat_sessions)
    /\ chat_sessions[Caller.session_id].user_id = Caller.user

\* the last create_chat_session named a CSV file of its caller
CallerOwnsFile ==
    /\ response.caller.csv_file_id \in 1..Len(csv_files)
    /\ csv_files[response.caller.csv_file_id].user_id = response.caller.user

\* every chat session references a CSV file of the session's owner
SessionsReferenceOwnFiles ==
    \A s \in 1..Len(chat_sessions) :
        /\ chat_sessions[s].csv_file_id \in 1..Len(csv_files)
        /\ csv_files[chat_sessions[s].csv_file_id].user_id = chat_sessions[s].user_id

\* send_message, get_messages and get_dashboard go past the session lookup
\* exactly for the session's owner; anyone else is answered 404 by a request
\* that did not reach the dataset or the engine; create_chat_session creates a
\* session exactly for a CSV file of its caller
OnlyOwnersAreServed ==
    /\ response.op \in SessionOps =>
           /\ {"caller", "request"} \cap DOMAIN response # {}
           /\ IF CallerOwnsSession
              THEN response.status # 404
              ELSE /\ response.status = 404
                   /\ "request" \notin DOMAIN response
                   /\ "body" \notin DOMAIN response
    /\ response.op = "create_chat_session" =>
           IF CallerOwnsFile
           THEN /\ response.status = 200
                /\ chat_sessions[response.id].user_id = response.caller.user
                /\ chat_sessions[response.id].csv_file_id = response.caller.csv_file_id
           ELSE response.status = 404

\* a request answered 404
Ends404 ==
    /\ response'.op \in SessionOps \cup {"create_chat_session"}
    /\ response'.status = 404

\* C25: send_message, get_messages and get_dashboard operate on a session only
\* for the user who owns it, and create_chat_session binds only a CSV file of
\* its caller; any other request ends in 404 without reading the dataset,
\* calling the engine, or writing a message or a session; at all times every
\* chat session references a CSV file of the same owner.
C25_SessionsAreIsolated ==
    /\ [](OnlyOwnersAreServed /\ SessionsReferenceOwnFiles)
    /\ [][Ends404 =>
             UNCHANGED <<messages, chat_sessions, csv_files, claude_service>>]_vars

\* a message sent to an existing session by a user who does not own it
C25_Witness ==
    /\ response.op = "send_message"
    /\ response.status = 404
    /\ response.caller.session_id \in 1..Len(chat_sessions)
    /\ chat_sessions[response.caller.session_id].user_id # response.caller.user
    /\ messages = <<>>

\* the same for get_messages, on a session that holds messages
C25_WitnessMessages ==
    /\ response.op = "get_messages"
    /\ response.status = 404
    /\ response.caller.session_id \in 1..Len(chat_sessions)
    /\ messages # <<>>

\* the same for get_dashboard
C25_WitnessDashboard ==
    /\ response.op = "get_dashboard"
    /\ response.status = 404
    /\ response.caller.session_id \in 1..Len(chat_sessions)

\* a session requested on a stored CSV file of another user
C25_WitnessCreate ==
    /\ response.op = "create_chat_session"
    /\ response.status = 404
    /\ response.caller.csv_file_id \in 1..Len(csv_files)

====
